---- MODULE Spec2Model ----
(***************************************************************************)
(* Model of src/python/pants/backend/scala/lint/scalafmt/rules.py:         *)
(* the partition_scalafmt rule (files grouped by the config file that      *)
(* governs them) and the scalafmt_fmt rule (one formatter process per      *)
(* batch).                                                                 *)
(*                                                                         *)
(* A path is a sequence of segments: <<"a", "b", "X.scala">> is            *)
(* a/b/X.scala and <<>> is the build root "".  A Python dict is a record   *)
(* [keys, vals]: keys is the insertion order, vals the defaultdict(set)    *)
(* content (the empty set for a key never inserted).                       *)
(***************************************************************************)
EXTENDS Integers, Sequences, FiniteSets, TLC

\* ------------------------------------------------------------------ bounds
MaxFiles == 3

\* ------------------------------------------------------- the workspace
ConfigFileName == ".scalafmt.conf"
toolcp_relpath == "__toolcp"

Files ==
  { <<"X.scala">>, <<"a", "X.scala">>, <<"a", "Y.scala">>, <<"a", "b", "X.scala">> }

NoConfig == <<>>

Range(s) == { s[i] : i \in DOMAIN s }

dirname(p) == SubSeq(p, 1, Len(p) - 1)

basename(p) == p[Len(p)]

AllDirs == { dirname(f) : f \in Files }

AllNames == { basename(f) : f \in Files }

AllConfigFiles == { Append(d, ConfigFileName) : d \in AllDirs }

OrphanBehaviors == { "ignore", "warn", "error" }

ExitCodes == { 0, 1 }

SeqsUpTo(S, n) == UNION { [1..k -> S] : k \in 0..n }

\* ------------------------------------------------------- pure helpers

\* os.path.join(source_dir, name); join("", name) is name.
path_join_dropDir(source_dir, name) == <<name>>

path_join(source_dir, name) == Append(source_dir, name)

EmptyDict(K, dflt) == [ keys |-> <<>>, vals |-> [ k \in K |-> dflt ] ]

\* ret[dirname].add(filename) on a defaultdict(set)
DictAdd(d, k, vs) ==
  [ keys |-> IF k \in Range(d.keys) THEN d.keys ELSE Append(d.keys, k),
    vals |-> [ d.vals EXCEPT ![k] = @ \cup vs ] ]

RECURSIVE group_by_dir_fold(_, _)
group_by_dir_fold(paths, ret) ==
  IF paths = <<>> THEN ret
  ELSE group_by_dir_fold(Tail(paths),
         DictAdd(ret, dirname(Head(paths)), { basename(Head(paths)) }))

group_by_dir(paths) == group_by_dir_fold(paths, EmptyDict(AllDirs, {}))

\* nearest enclosing config file of a directory, walking upward
RECURSIVE find_nearest_ancestor_file(_, _)
find_nearest_ancestor_file(files, dir) ==
  IF Append(dir, ConfigFileName) \in files THEN Append(dir, ConfigFileName)
  ELSE IF dir = <<>> THEN NoConfig
  ELSE find_nearest_ancestor_file(files, dirname(dir))

RECURSIVE ancestors(_)
ancestors(dir) == IF dir = <<>> THEN { <<>> } ELSE { dir } \cup ancestors(dirname(dir))

\* gather_config_files_by_workspace_dir: the snapshot of the config files
\* found in the source directories and their ancestors, the assignment of
\* the directories that resolve one, and whether the call raises.
gather_config_files(paths, workspace, behavior) ==
  LET source_dirs == { dirname(paths[i]) : i \in DOMAIN paths }
      covered     == UNION { ancestors(d) : d \in source_dirs }
      snapshot    == { c \in workspace : dirname(c) \in covered }
      resolved    == { d \in source_dirs :
                         find_nearest_ancestor_file(snapshot, d) # NoConfig }
  IN [ raised  |-> behavior = "error" /\ resolved # source_dirs,
       snapshot |-> snapshot,
       source_dir_to_config_file |->
         [ d \in resolved |-> find_nearest_ancestor_file(snapshot, d) ] ]

\* DigestSubset(digest, PathGlobs(globs)) followed by digest_to_snapshot
digest_subset(snapshot, globs) == snapshot \cap globs

\* the materialized tool classpath
ToolClasspath == [ digest |-> "toolcp_digest", filenames |-> { "scalafmt.jar" } ]

classpath_entries(tc, prefix) == { <<prefix, f>> : f \in tc.filenames }

\* line 105: config_files.source_dir_to_config_file[source_dir]
BucketKey_ownDir(mapping, source_dir) == Append(source_dir, ConfigFileName)

BucketKey(mapping, source_dir) == mapping[source_dir]

\* line 106: source_files_by_config_file[config_file].update(...)
BucketUpdate_assign(d, k, vs) ==
  [ keys |-> IF k \in Range(d.keys) THEN d.keys ELSE Append(d.keys, k),
    vals |-> [ d.vals EXCEPT ![k] = vs ] ]

BucketUpdate(d, k, vs) == DictAdd(d, k, vs)

\* lines 103-108: the loop over group_by_dir(filepaths).items(); the lookup
\* of a directory missing from the mapping raises KeyError.
RECURSIVE GroupLoop(_, _, _, _)
GroupLoop(dirs, grouped, mapping, acc) ==
  IF dirs = <<>> THEN [ raised |-> FALSE, dict |-> acc ]
  ELSE IF Head(dirs) \notin DOMAIN mapping THEN [ raised |-> TRUE, dict |-> acc ]
  ELSE GroupLoop(Tail(dirs), grouped, mapping,
         BucketUpdate(acc, BucketKey(mapping, Head(dirs)),
           { path_join(Head(dirs), n) : n \in grouped.vals[Head(dirs)] }))

SourceFilesByConfigFile(paths, mapping) ==
  GroupLoop(group_by_dir(paths).keys, group_by_dir(paths), mapping,
            EmptyDict(AllConfigFiles, {}))

\* line 112: PathGlobs([config_file])
ConfigGlobs_all(config_file) == AllConfigFiles

ConfigGlobs(config_file) == { config_file }

Min(a, b) == IF a <= b THEN a ELSE b

\* lines 117-129: zip(source_files_by_config_file.values(), config_file_snapshots)
ZipPartitions(dict, snapshots, tc) ==
  [ i \in 1..Min(Len(dict.keys), Len(snapshots)) |->
      [ elements |-> dict.vals[dict.keys[i]],
        metadata |->
          [ classpath_entries |-> classpath_entries(tc, toolcp_relpath),
            config_snapshot   |-> snapshots[i],
            extra_immutable_input_digests |->
              [ r \in { toolcp_relpath } |-> tc.digest ] ] ] ]

\* config_snapshot.files[0]: a snapshot lists its files sorted by path; among
\* the config files of the workspace a shorter path sorts first
\* (".scalafmt.conf" < "a/.scalafmt.conf" < "a/b/.scalafmt.conf").
files0(snapshot) ==
  CHOOSE c \in snapshot : \A o \in snapshot : Len(c) <= Len(o)

\* lines 143-160: the JvmProcess of one batch
JvmProcess_noOutputs(batch, merged) ==
  [ config         |-> files0(batch.metadata.config_snapshot),
    files          |-> batch.elements,
    output_files   |-> {},
    input_digest   |-> merged,
    classpath_entries |-> batch.metadata.classpath_entries,
    extra_immutable_input_digests |-> batch.metadata.extra_immutable_input_digests ]

JvmProcess(batch, merged) ==
  [ config         |-> files0(batch.metadata.config_snapshot),
    files          |-> batch.elements,
    output_files   |-> batch.elements,
    input_digest   |-> merged,
    classpath_entries |-> batch.metadata.classpath_entries,
    extra_immutable_input_digests |-> batch.metadata.extra_immutable_input_digests ]

\* ------------------------------------------------------------- state
VARIABLES
  skip, orphan_files_behavior, workspace, filepaths,
  pc, error, classpath_task, gather_task, config_files,
  source_files_by_config_file, slice_task, config_file_snapshots,
  partitions, dispatched, fmt_pc, merged_digest, processes, exit_code

vars ==
  << skip, orphan_files_behavior, workspace, filepaths,
     pc, error, classpath_task, gather_task, config_files,
     source_files_by_config_file, slice_task, config_file_snapshots,
     partitions, dispatched, fmt_pc, merged_digest, processes, exit_code >>

inputs == << skip, orphan_files_behavior, workspace, filepaths >>

partitionVars ==
  << pc, error, classpath_task, gather_task, config_files,
     source_files_by_config_file, slice_task, config_file_snapshots, partitions >>

fmtVars == << dispatched, fmt_pc, merged_digest, processes, exit_code >>

NoConfigFiles ==
  [ raised |-> FALSE, snapshot |-> {}, source_dir_to_config_file |-> <<>> ]

Init ==
  /\ skip \in BOOLEAN
  /\ orphan_files_behavior \in OrphanBehaviors
  /\ workspace \in SUBSET AllConfigFiles
  /\ filepaths \in SeqsUpTo(Files, MaxFiles)
  /\ pc = "start"
  /\ error = "none"
  /\ classpath_task = "idle"
  /\ gather_task = "idle"
  /\ config_files = NoConfigFiles
  /\ source_files_by_config_file = EmptyDict(AllConfigFiles, {})
  /\ slice_task = <<>>
  /\ config_file_snapshots = <<>>
  /\ partitions = <<>>
  /\ dispatched = FALSE
  /\ fmt_pc = <<>>
  /\ merged_digest = <<>>
  /\ processes = <<>>
  /\ exit_code = <<>>

\* ------------------------------------------------- partition_scalafmt

\* lines 79-96 without the skip test
Start_noSkip ==
  /\ pc = "start"
  /\ pc' = "await_fetch"
  /\ classpath_task' = "running"
  /\ gather_task' = "running"
  /\ partitions' = <<>>
  /\ UNCHANGED << inputs, error, config_files, source_files_by_config_file,
                  slice_task, config_file_snapshots, fmtVars >>

\* lines 79-96: the skip fast path, else both fetches are started
Start ==
  /\ pc = "start"
  /\ IF skip
       THEN /\ pc' = "done"
            /\ partitions' = <<>>
            /\ UNCHANGED << classpath_task, gather_task >>
       ELSE /\ pc' = "await_fetch"
            /\ classpath_task' = "running"
            /\ gather_task' = "running"
            /\ partitions' = <<>>
  /\ UNCHANGED << inputs, error, config_files, source_files_by_config_file,
                  slice_task, config_file_snapshots, fmtVars >>

\* line 87: materialize_classpath_for_tool completes
MaterializeClasspath ==
  /\ pc = "await_fetch"
  /\ classpath_task = "running"
  /\ classpath_task' = "done"
  /\ UNCHANGED << inputs, pc, error, gather_task, config_files,
                  source_files_by_config_file, slice_task,
                  config_file_snapshots, partitions, fmtVars >>

\* lines 88-95: gather_config_files_by_workspace_dir completes or raises
GatherConfigFiles ==
  /\ pc = "await_fetch"
  /\ gather_task = "running"
  /\ LET r == gather_config_files(filepaths, workspace, orphan_files_behavior)
     IN /\ gather_task' = IF r.raised THEN "raised" ELSE "ok"
        /\ config_files' = r
  /\ UNCHANGED << inputs, pc, error, classpath_task,
                  source_files_by_config_file, slice_task,
                  config_file_snapshots, partitions, fmtVars >>

\* the join, were a resolver failure swallowed and unmapped directories skipped
JoinFetch_swallow ==
  /\ pc = "await_fetch"
  /\ gather_task \in { "ok", "raised" }
  /\ classpath_task = "done"
  /\ LET m == config_files.source_dir_to_config_file
         kept == SelectSeq(filepaths, LAMBDA f : dirname(f) \in DOMAIN m)
         g == SourceFilesByConfigFile(kept, m)
     IN /\ pc' = "await_slices"
        /\ error' = error
        /\ source_files_by_config_file' = g.dict
        /\ slice_task' = [ i \in 1..Len(g.dict.keys) |-> "running" ]
        /\ config_file_snapshots' = [ i \in 1..Len(g.dict.keys) |-> {} ]
  /\ UNCHANGED << inputs, classpath_task, gather_task, config_files,
                  partitions, fmtVars >>

\* lines 86-115: the join of the two fetches (it fails as soon as the
\* resolver has raised), then the grouping loop and the start of one
\* slicing request per bucket
JoinFetch ==
  /\ pc = "await_fetch"
  /\ \/ /\ gather_task = "raised"
        /\ pc' = "failed"
        /\ error' = "ValueError"
        /\ UNCHANGED << source_files_by_config_file, slice_task,
                        config_file_snapshots >>
     \/ /\ gather_task = "ok"
        /\ classpath_task = "done"
        /\ LET g == SourceFilesByConfigFile(filepaths,
                      config_files.source_dir_to_config_file)
           IN IF g.raised
                THEN /\ pc' = "failed"
                     /\ error' = "KeyError"
                     /\ UNCHANGED << source_files_by_config_file, slice_task,
                                     config_file_snapshots >>
                ELSE /\ pc' = "await_slices"
                     /\ error' = error
                     /\ source_files_by_config_file' = g.dict
                     /\ slice_task' = [ i \in 1..Len(g.dict.keys) |-> "running" ]
                     /\ config_file_snapshots' = [ i \in 1..Len(g.dict.keys) |-> {} ]
  /\ UNCHANGED << inputs, classpath_task, gather_task, config_files,
                  partitions, fmtVars >>

\* lines 111-113: the i-th slicing request completes; its result takes the
\* i-th place of config_file_snapshots whatever the completion order
SliceConfig(i) ==
  /\ pc = "await_slices"
  /\ i \in DOMAIN slice_task
  /\ slice_task[i] = "running"
  /\ slice_task' = [ slice_task EXCEPT ![i] = "done" ]
  /\ config_file_snapshots' =
       [ config_file_snapshots EXCEPT ![i] =
           digest_subset(config_files.snapshot,
                         ConfigGlobs(source_files_by_config_file.keys[i])) ]
  /\ UNCHANGED << inputs, pc, error, classpath_task, gather_task, config_files,
                  source_files_by_config_file, partitions, fmtVars >>

\* lines 110-129: all slices are in, the partitions are returned
ReturnPartitions ==
  /\ pc = "await_slices"
  /\ \A i \in DOMAIN slice_task : slice_task[i] = "done"
  /\ pc' = "done"
  /\ partitions' =
       ZipPartitions(source_files_by_config_file, config_file_snapshots, ToolClasspath)
  /\ UNCHANGED << inputs, error, classpath_task, gather_task, config_files,
                  source_files_by_config_file, slice_task,
                  config_file_snapshots, fmtVars >>

\* ------------------------------------------------- dispatch and scalafmt_fmt

\* the fmt goal: one batch per returned partition, each run independently
Dispatch ==
  /\ pc = "done"
  /\ ~dispatched
  /\ dispatched' = TRUE
  /\ fmt_pc' = [ b \in DOMAIN partitions |-> "start" ]
  /\ merged_digest' = [ b \in DOMAIN partitions |-> {} ]
  /\ exit_code' = [ b \in DOMAIN partitions |-> -1 ]
  /\ UNCHANGED << inputs, partitionVars, processes >>

\* lines 136-139: the config snapshot and the source snapshot are merged
MergeDigests(b) ==
  /\ b \in DOMAIN fmt_pc
  /\ fmt_pc[b] = "start"
  /\ merged_digest' =
       [ merged_digest EXCEPT ![b] =
           partitions[b].metadata.config_snapshot \cup partitions[b].elements ]
  /\ fmt_pc' = [ fmt_pc EXCEPT ![b] = "merged" ]
  /\ UNCHANGED << inputs, partitionVars, dispatched, processes, exit_code >>

\* the process step, were a non-zero exit to fail every batch of the request
RunProcess_abortAll(b) ==
  /\ b \in DOMAIN fmt_pc
  /\ fmt_pc[b] = "merged"
  /\ \E code \in ExitCodes :
       /\ processes' =
            Append(processes, [ batch |-> b, process |-> JvmProcess(partitions[b], merged_digest[b]) ])
       /\ exit_code' = [ exit_code EXCEPT ![b] = code ]
       /\ fmt_pc' = IF code = 0
                      THEN [ fmt_pc EXCEPT ![b] = "create_result" ]
                      ELSE [ o \in DOMAIN fmt_pc |-> "failed" ]
  /\ UNCHANGED << inputs, partitionVars, dispatched, merged_digest >>

\* lines 141-162: the formatter process runs; fallible_to_exec_result_or_raise
\* raises in this batch on a non-zero exit
RunProcess(b) ==
  /\ b \in DOMAIN fmt_pc
  /\ fmt_pc[b] = "merged"
  /\ \E code \in ExitCodes :
       /\ processes' =
            Append(processes, [ batch |-> b, process |-> JvmProcess(partitions[b], merged_digest[b]) ])
       /\ exit_code' = [ exit_code EXCEPT ![b] = code ]
       /\ fmt_pc' = [ fmt_pc EXCEPT ![b] = IF code = 0 THEN "create_result" ELSE "failed" ]
  /\ UNCHANGED << inputs, partitionVars, dispatched, merged_digest >>

\* line 163: FmtResult.create(request, result)
CreateResult(b) ==
  /\ b \in DOMAIN fmt_pc
  /\ fmt_pc[b] = "create_result"
  /\ fmt_pc' = [ fmt_pc EXCEPT ![b] = "done" ]
  /\ UNCHANGED << inputs, partitionVars, dispatched, merged_digest, processes,
                  exit_code >>

\* the steps of scalafmt_fmt for batch b
FmtStep(b) == MergeDigests(b) \/ RunProcess(b) \/ CreateResult(b)

\* ------------------------------------------------------ specification
Next ==
  \/ Start
  \/ MaterializeClasspath
  \/ GatherConfigFiles
  \/ JoinFetch
  \/ \E i \in 1..Cardinality(AllConfigFiles) : SliceConfig(i)
  \/ ReturnPartitions
  \/ Dispatch
  \/ \E b \in 1..Cardinality(AllConfigFiles) : MergeDigests(b)
  \/ \E b \in 1..Cardinality(AllConfigFiles) : RunProcess(b)
  \/ \E b \in 1..Cardinality(AllConfigFiles) : CreateResult(b)

Spec == Init /\ [][Next]_vars

TypeOK ==
  /\ pc \in { "start", "await_fetch", "await_slices", "done", "failed" }
  /\ error \in { "none", "ValueError", "KeyError" }
  /\ Len(partitions) <= Cardinality(AllConfigFiles)

\* ------------------------------------------------------ shared notions
Mapping == config_files.source_dir_to_config_file

InputFiles == Range(filepaths)

InputDirs == { dirname(f) : f \in InputFiles }

OrphanDirs == InputDirs \ DOMAIN Mapping

OrphanFiles == { f \in InputFiles : dirname(f) \in OrphanDirs }

UsedConfigs == { Mapping[d] : d \in InputDirs \cap DOMAIN Mapping }

PartitionFiles == UNION { partitions[i].elements : i \in DOMAIN partitions }

Returned == pc = "done" /\ ~skip

Finished == pc \in { "done", "failed" }

ProcessesOf(b) == { k \in DOMAIN processes : processes[k].batch = b }

\* ------------------------------------------------------------- claims

\* C1: whenever the resolver has returned an assignment, partition_scalafmt
\* returns partitions whose file sets together are the input files minus the
\* files of orphaned directories (all input files when no directory is orphaned).
C1_UnionIsInputMinusOrphans ==
  (gather_task = "ok" /\ Finished) =>
     (pc = "done" /\ PartitionFiles = InputFiles \ OrphanFiles)

\* C2: the file sets of the returned partitions are pairwise disjoint.
C2_PairwiseDisjoint ==
  Returned =>
     \A i, j \in DOMAIN partitions :
        i # j => partitions[i].elements \cap partitions[j].elements = {}

C2_Witness ==
  /\ Returned
  /\ Len(partitions) >= 2
  /\ \E i, j \in DOMAIN filepaths : i < j /\ filepaths[i] = filepaths[j]

\* C3: the number of returned partitions is the number of distinct config
\* files assigned to the input directories, not the number of directories.
C3_CountIsDistinctConfigs ==
  Returned => Len(partitions) = Cardinality(UsedConfigs)

C3_Witness ==
  /\ Returned
  /\ Cardinality(InputDirs) >= 2
  /\ Len(partitions) = 1

\* C4: every returned partition carries a config snapshot of exactly one
\* file, the config file assigned to the directory of each of its files.
C4_OneConfigPerPartition ==
  Returned =>
     \A i \in DOMAIN partitions :
        /\ Cardinality(partitions[i].metadata.config_snapshot) = 1
        /\ \A f \in partitions[i].elements :
              partitions[i].metadata.config_snapshot = { Mapping[dirname(f)] }

C4_Witness ==
  /\ Returned
  /\ Len(partitions) >= 2
  /\ \E i \in DOMAIN partitions :
        Cardinality({ dirname(f) : f \in partitions[i].elements }) >= 2

\* C5: with the skip flag set no partition is returned, no formatter process
\* is ever run, and neither the classpath materialization nor the config
\* resolution is started.
C5_SkipDoesNothing ==
  skip =>
     /\ pc \in { "start", "done" }
     /\ partitions = <<>>
     /\ processes = <<>>
     /\ fmt_pc = <<>>
     /\ classpath_task = "idle"
     /\ gather_task = "idle"

C5_Witness ==
  /\ skip
  /\ dispatched
  /\ Len(filepaths) >= 2

\* C6: when the returned assignment lacks some input directory,
\* partition_scalafmt still returns: the files of the other directories are
\* partitioned and the files of the orphaned directories are in no partition.
C6_OrphansAreLeftOut ==
  (gather_task = "ok" /\ OrphanDirs # {} /\ Finished) =>
     /\ pc = "done"
     /\ error = "none"
     /\ PartitionFiles = { f \in InputFiles : dirname(f) \in DOMAIN Mapping }

\* C7: once the resolver has raised, the partitioning step fails (the join
\* is ready to raise until it has): no
\* partition is returned, no config snapshot is sliced, no formatter process
\* is started.
C7_ResolverFailureAborts ==
  gather_task = "raised" =>
     /\ pc \in { "await_fetch", "failed" }
     /\ (pc = "await_fetch" => ENABLED JoinFetch)
     /\ partitions = <<>>
     /\ slice_task = <<>>
     /\ config_file_snapshots = <<>>
     /\ ~dispatched
     /\ processes = <<>>

C7_Witness ==
  /\ gather_task = "raised"
  /\ pc = "failed"
  /\ InputDirs \cap DOMAIN Mapping # {}

C9_OneProcessPerPartition ==
  /\ \A b \in DOMAIN fmt_pc :
        /\ Cardinality(ProcessesOf(b)) <= 1
        /\ (ProcessesOf(b) # {}) <=> (fmt_pc[b] \in { "create_result", "done", "failed" })
  /\ \A k \in DOMAIN processes :
        LET b == processes[k].batch
            p == processes[k].process
        IN /\ p.config \in AllConfigFiles
           /\ \A f \in partitions[b].elements : Mapping[dirname(f)] = p.config
           /\ p.files = partitions[b].elements
           /\ p.output_files = p.files
           /\ p.input_digest = { p.config } \cup p.files
           /\ DOMAIN p.extra_immutable_input_digests = { "__toolcp" }
           /\ p.extra_immutable_input_digests["__toolcp"] = ToolClasspath.digest
           /\ \A e \in p.classpath_entries : e[1] = "__toolcp"
           /\ \A o \in DOMAIN partitions : o # b => p.files \cap partitions[o].elements = {}

C9_Witness ==
  /\ Len(processes) >= 2
  /\ \E k \in DOMAIN processes : Cardinality(processes[k].process.files) >= 2

\* C10: the returned partitions, as a set of (file set, config) pairs, are
\* determined by the set of input paths and the assignment alone, whatever
\* the order and the repetitions of the input sequence, and no partition has
\* an empty file set.
C10_DependsOnInputSetOnly ==
  Returned =>
     /\ { << partitions[i].elements, partitions[i].metadata.config_snapshot >> :
            i \in DOMAIN partitions }
        = { << { f \in InputFiles : Mapping[dirname(f)] = c }, { c } >> :
            c \in UsedConfigs }
     /\ \A i \in DOMAIN partitions : partitions[i].elements # {}

C10_Witness ==
  /\ Returned
  /\ Len(partitions) >= 2
  /\ \E i, j \in DOMAIN filepaths :
        /\ i + 1 < j
        /\ filepaths[i] = filepaths[j]
        /\ filepaths[i + 1] # filepaths[i]

====
